---- MODULE Spec2Model ----
(***************************************************************************)
(* The repository-evaluation pipeline of app/api/nodes/github.py:          *)
(* evaluate_repository and the stages it sequences (clone_repo,            *)
(* get_code_files, run_static_analysis, run_plagiarism_check,              *)
(* analyze_repo_structure, evaluate_with_llm, compute_final_score,         *)
(* generate_feedback) and its guaranteed-cleanup block.                    *)
(*                                                                         *)
(* Numbers.  Every Python float of the pipeline is held as an integer      *)
(* count of 1/Scale units.  Scale is a multiple of 100 (two-decimal tool   *)
(* output), of 10 (file_count / 10) and of 60 (a mean over 1..5 integer    *)
(* scores), so every value the bounded inputs can produce is exact.        *)
(* Texts (paths, file names, tool stdout, LLM replies) are strings.        *)
(***************************************************************************)
EXTENDS Integers, Sequences, FiniteSets, TLC

Scale == 3 * 100

\* n as a Python number, n hundredths as a Python number
Num(n) == n * Scale
Cents(c) == c * (Scale \div 100)

Min(a, b) == IF a <= b THEN a ELSE b

(***************************************************************************)
(* str methods used by the pipeline                                        *)
(***************************************************************************)
\* s.startswith(p)
StartsWith(s, p) == Len(p) <= Len(s) /\ SubSeq(s, 1, Len(p)) = p

\* s.endswith(p)
EndsWith(s, p) == Len(p) <= Len(s) /\ SubSeq(s, Len(s) - Len(p) + 1, Len(s)) = p

\* sub in s
Contains(s, sub) ==
    \E i \in 1..(Len(s) - Len(sub) + 1) : SubSeq(s, i, i + Len(sub) - 1) = sub

\* s.find(sub) as a 1-based position, 0 when sub does not occur
Find(s, sub) ==
    IF Contains(s, sub)
    THEN CHOOSE i \in 1..(Len(s) - Len(sub) + 1) :
            /\ SubSeq(s, i, i + Len(sub) - 1) = sub
            /\ \A j \in 1..(i - 1) : SubSeq(s, j, j + Len(sub) - 1) # sub
    ELSE 0

\* s.split(sep): the pieces of s between the occurrences of sep, left to right
RECURSIVE Split(_, _)
Split(s, sep) ==
    LET i == Find(s, sep)
    IN  IF i = 0 THEN <<s>>
        ELSE <<SubSeq(s, 1, i - 1)>> \o Split(SubSeq(s, i + Len(sep), Len(s)), sep)

UpperCase == "ABCDEFGHIJKLMNOPQRSTUVWXYZ"
LowerCase == "abcdefghijklmnopqrstuvwxyz"

LowerChar(c) ==
    IF Contains(UpperCase, c)
    THEN LET i == Find(UpperCase, c) IN SubSeq(LowerCase, i, i)
    ELSE c

\* s.lower()
RECURSIVE Lower(_)
Lower(s) == IF s = "" THEN "" ELSE LowerChar(SubSeq(s, 1, 1)) \o Lower(Tail(s))

\* s.replace(a, b) for a one-character a
RECURSIVE Replace(_, _, _)
Replace(s, a, b) ==
    IF s = "" THEN ""
    ELSE (IF SubSeq(s, 1, 1) = a THEN b ELSE SubSeq(s, 1, 1)) \o Replace(Tail(s), a, b)

IsSpace(c) == c \in {" ", "\t", "\n", "\r"}

\* s.strip()
RECURSIVE LStrip(_)
LStrip(s) == IF s # "" /\ IsSpace(SubSeq(s, 1, 1)) THEN LStrip(Tail(s)) ELSE s
RECURSIVE RStrip(_)
RStrip(s) ==
    IF s # "" /\ IsSpace(SubSeq(s, Len(s), Len(s)))
    THEN RStrip(SubSeq(s, 1, Len(s) - 1)) ELSE s
Strip(s) == RStrip(LStrip(s))

\* s.split(): the whitespace-separated words of s
RECURSIVE WordEnd(_, _)
WordEnd(t, i) == IF i > Len(t) \/ IsSpace(SubSeq(t, i, i)) THEN i - 1 ELSE WordEnd(t, i + 1)
RECURSIVE Words(_)
Words(s) ==
    LET t == LStrip(s)
    IN  IF t = "" THEN <<>>
        ELSE LET e == WordEnd(t, 1)
             IN  <<SubSeq(t, 1, e)>> \o Words(SubSeq(t, e + 1, Len(t)))

(***************************************************************************)
(* The work tree a clone leaves in the workspace.  A tree maps each        *)
(* directory, named by its path relative to the workspace root ("" is the  *)
(* root), to its listing in scandir order: the sub-directory names, the    *)
(* files the analyses can tell apart (name, number of lines) and the       *)
(* number of further files whose names match no rule of any analysis       *)
(* (OtherName stands for each of them).  The k-th line of a file of source *)
(* text is LineText(k); a blank file holds nothing but empty lines.        *)
(***************************************************************************)
File(name, nlines) == [name |-> name, nlines |-> nlines, blank |-> FALSE]
BlankFile(name, nlines) == [name |-> name, nlines |-> nlines, blank |-> TRUE]

LinePattern ==
    <<"import os", "", "def run(x):", "    y = x + 1", "    return y", "", "# end">>
LineText(k) == LinePattern[((k - 1) % Len(LinePattern)) + 1]

\* content.splitlines() of the file: its lines without their line breaks
SplitLines(file) == [k \in 1..file.nlines |-> IF file.blank THEN "" ELSE LineText(k)]
Dir(dirs, files, others) == [dirs |-> dirs, files |-> files, others |-> others]
OtherName == "asset.bin"

GitDir == Dir(<<>>, <<>>, 9)

\* README and manifest at the top, sources below
TreeApp ==
    [p \in {"", ".git", "src"} |->
        CASE p = ""     -> Dir(<<".git", "src">>,
                               <<File("README.md", 20), File("requirements.txt", 0)>>, 0)
          [] p = ".git" -> GitDir
          [] p = "src"  -> Dir(<<>>, <<File("main.py", 120)>>, 1)]

\* README and manifest present, nothing else, 50 files
TreeFifty ==
    [p \in {"", ".git"} |->
        CASE p = ""     -> Dir(<<".git">>,
                               <<File("README.md", 20), File("requirements.txt", 5)>>, 48)
          [] p = ".git" -> GitDir]

\* a CI workflow under .github/workflows, tests, a container definition
TreeCI ==
    [p \in {"", ".git", ".github", ".github/workflows", "tests"} |->
        CASE p = ""        -> Dir(<<".git", ".github", "tests">>,
                                  <<File("Readme.MD", 3), File("setup.py", 10),
                                    File("Dockerfile", 8)>>, 46)
          [] p = ".git"    -> GitDir
          [] p = ".github" -> Dir(<<"workflows">>, <<>>, 0)
          [] p = ".github/workflows" -> Dir(<<>>, <<File("ci.yml", 30)>>, 0)
          [] p = "tests"   -> Dir(<<>>, <<File("test_app.py", 40)>>, 0)]

\* every artefact, a directory whose path merely contains the CI marker, many files
TreeBig ==
    [p \in {"", ".git", "tests", "old.github", "old.github/workflows"} |->
        CASE p = ""      -> Dir(<<".git", "old.github", "tests">>,
                                <<File("README", 0), File("pyproject.toml", 12),
                                  File("dockerfile", 8), File("app.js", 200)>>, 400)
          [] p = ".git"  -> GitDir
          [] p = "tests" -> Dir(<<>>, <<>>, 2)
          [] p = "old.github" -> Dir(<<"workflows">>, <<>>, 0)
          [] p = "old.github/workflows" -> Dir(<<>>, <<File("build.yml", 15)>>, 0)]

\* sources longer than one chunk, an empty package marker, and files below
\* dot-prefixed directories: a container definition, notes, a vendored module
TreeLong ==
    [p \in {"", ".git", ".devcontainer", ".venv", ".venv/lib", "src"} |->
        CASE p = ""     -> Dir(<<".git", ".devcontainer", ".venv", "src">>,
                               <<File("README.md", 12)>>, 0)
          [] p = ".git" -> GitDir
          [] p = ".devcontainer" -> Dir(<<>>, <<File("Dockerfile", 6), File("setup.md", 5)>>, 0)
          [] p = ".venv" -> Dir(<<"lib">>, <<>>, 0)
          [] p = ".venv/lib" -> Dir(<<>>, <<File("site.py", 30)>>, 2)
          [] p = "src"  -> Dir(<<>>, <<BlankFile("__init__.py", 1), File("engine.py", 2001),
                                       File("table.py", 1000), File("app.js", 1001)>>, 0)]

\* a tests directory that holds documentation and packaging files only
TreeTestDocs ==
    [p \in {"", ".git", "tests"} |->
        CASE p = ""      -> Dir(<<".git", "tests">>, <<File("index.js", 30)>>, 0)
          [] p = ".git"  -> GitDir
          [] p = "tests" -> Dir(<<>>, <<File("README.md", 4), File("requirements.txt", 2),
                                       File("Dockerfile", 5)>>, 0)]

\* nothing but the clone's own metadata
TreeEmpty == [p \in {"", ".git"} |-> IF p = "" THEN Dir(<<".git">>, <<>>, 0) ELSE GitDir]

Trees == <<TreeApp, TreeFifty, TreeCI, TreeBig, TreeLong, TreeEmpty, TreeTestDocs>>

\* the directory at the workspace path: the cloned work tree, or an empty directory
NoTree == 0
WorkTree(tree) == IF tree = NoTree THEN [p \in {""} |-> Dir(<<>>, <<>>, 0)] ELSE Trees[tree]

\* tempfile.mkdtemp(prefix="repo_"): a fresh directory under the temp dir
RepoPaths == {"/tmp/repo_k3x9q0aa", "/var/tmp/repo_w7test_b"}
\* the name it draws as a rule; one that spells a word is a rare draw
NominalPath == "/tmp/repo_k3x9q0aa"

\* os.path.join(root, name)
PathJoin(root, name) == root \o "/" \o name

\* the tree's relative name of directory d of the directory named rel
Child(rel, d) == IF rel = "" THEN d ELSE PathJoin(rel, d)

\* the root os.walk reports for the directory named rel
RootOf(repo, rel) == IF rel = "" THEN repo ELSE PathJoin(repo, rel)

IsHidden(name) == StartsWith(name, ".")

\* any(part.startswith('.') for part in root.split(os.sep))
HasHiddenPart(root) ==
    LET parts == Split(root, "/") IN \E i \in 1..Len(parts) : IsHidden(parts[i])

\* VisibleDirs with nothing pruned
VisibleDirsUnpruned(dirs) == dirs

(***************************************************************************)
(* os.walk(top), top-down: one (root, dirs, files) entry per directory.    *)
(* With prune, the walker's dirs[:] = [d for d in dirs if not              *)
(* d.startswith('.')] is applied before the walk descends.                 *)
(***************************************************************************)
VisibleDirs(dirs) == SelectSeq(dirs, LAMBDA d : ~IsHidden(d))

RECURSIVE Walk(_, _, _, _)
RECURSIVE WalkEach(_, _, _, _, _)
Walk(tree, repo, rel, prune) ==
    LET e  == tree[rel]
        ds == IF prune THEN VisibleDirs(e.dirs) ELSE e.dirs
    IN  <<[root |-> RootOf(repo, rel), dirs |-> ds, files |-> e.files, others |-> e.others]>>
        \o WalkEach(tree, repo, rel, ds, prune)
WalkEach(tree, repo, rel, ds, prune) ==
    IF ds = <<>> THEN <<>>
    ELSE Walk(tree, repo, Child(rel, Head(ds)), prune)
         \o WalkEach(tree, repo, rel, Tail(ds), prune)

\* the names in a directory listing: the named files, then the others
RECURSIVE Repeat(_, _)
Repeat(v, n) == IF n = 0 THEN <<>> ELSE <<v>> \o Repeat(v, n - 1)
NamesOf(e) == [i \in 1..Len(e.files) |-> e.files[i].name] \o Repeat(OtherName, Min(e.others, 1))
FileCount(e) == Len(e.files) + e.others

RECURSIVE SumSeq(_)
SumSeq(s) == IF s = <<>> THEN 0 ELSE Head(s) + SumSeq(Tail(s))

(***************************************************************************)
(* analyze_repo_structure                                                  *)
(***************************************************************************)
\* the branch of the if/elif chain a file takes
FlagOf(root, file) ==
    LET file_lower == Lower(file)
    IN  IF file_lower \in {"readme.md", "readme.txt", "readme"} THEN "has_readme"
        ELSE IF file_lower \in {"requirements.txt", "pyproject.toml", "setup.py"}
             THEN "has_requirements"
        ELSE IF file_lower = "dockerfile" THEN "has_dockerfile"
        ELSE IF Contains(Replace(root, "\\", "/"), ".github/workflows")
             THEN "has_github_actions"
        ELSE IF Contains(Lower(root), "test") \/ Contains(Lower(root), "tests")
             THEN "has_tests"
        ELSE "none"

analyze_repo_structure(tree, repo_path) ==
    LET w == Walk(tree, repo_path, "", TRUE)
        Set(flag) == \E i \in 1..Len(w) :
                        \E j \in 1..Len(NamesOf(w[i])) : FlagOf(w[i].root, NamesOf(w[i])[j]) = flag
    IN  [has_readme         |-> Set("has_readme"),
         has_requirements   |-> Set("has_requirements"),
         has_dockerfile     |-> Set("has_dockerfile"),
         has_github_actions |-> Set("has_github_actions"),
         has_tests          |-> Set("has_tests"),
         file_count         |-> SumSeq([i \in 1..Len(w) |-> FileCount(w[i])]),
         dir_count          |-> SumSeq([i \in 1..Len(w) |-> Len(w[i].dirs)])]

\* StructureScore with the file bonus taken by floor division
StructureScoreFloorDiv(sa) ==
    (IF sa.has_readme THEN Num(20) ELSE 0)
    + (IF sa.has_requirements THEN Num(20) ELSE 0)
    + (IF sa.has_tests THEN Num(15) ELSE 0)
    + (IF sa.has_dockerfile THEN Num(15) ELSE 0)
    + (IF sa.has_github_actions THEN Num(10) ELSE 0)
    + Min(Num(sa.file_count \div 10), Num(20))

\* StructureScore with the file bonus left uncapped
StructureScoreUncapped(sa) ==
    (IF sa.has_readme THEN Num(20) ELSE 0)
    + (IF sa.has_requirements THEN Num(20) ELSE 0)
    + (IF sa.has_tests THEN Num(15) ELSE 0)
    + (IF sa.has_dockerfile THEN Num(15) ELSE 0)
    + (IF sa.has_github_actions THEN Num(10) ELSE 0)
    + Num(sa.file_count) \div 10

\* the sum evaluate_repository takes over the structure report
StructureScore(sa) ==
    (IF sa.has_readme THEN Num(20) ELSE 0)
    + (IF sa.has_requirements THEN Num(20) ELSE 0)
    + (IF sa.has_tests THEN Num(15) ELSE 0)
    + (IF sa.has_dockerfile THEN Num(15) ELSE 0)
    + (IF sa.has_github_actions THEN Num(10) ELSE 0)
    + Min(Num(sa.file_count) \div 10, Num(20))

(***************************************************************************)
(* get_code_files.  A chunk is the label of its header line (the file name *)
(* and the 1-based inclusive line range) and, in lines, the lines that     *)
(* "\n".join puts below the header.                                        *)
(***************************************************************************)
DefaultExts == <<".py", ".js", ".cpp", ".java", ".c", ".h", ".ts", ".html", ".css", ".md", ".txt">>
ChunkLines == 1000

HasExt(f, exts) == \E i \in 1..Len(exts) : EndsWith(f, exts[i])

\* content.strip() is empty
IsBlank(lines) == \A k \in 1..Len(lines) : Strip(lines[k]) = ""

\* FileChunks with the end of every range taken as i + 1000
RECURSIVE FileChunksNoMin(_, _, _)
FileChunksNoMin(f, lines, i) ==
    IF i >= Len(lines) THEN <<>>
    ELSE <<[file  |-> f, first |-> i + 1, last |-> i + ChunkLines,
            lines |-> SubSeq(lines, i + 1, Min(i + ChunkLines, Len(lines)))]>>
         \o FileChunksNoMin(f, lines, i + ChunkLines)

\* FileChunks with each slice one line short
RECURSIVE FileChunksShort(_, _, _)
FileChunksShort(f, lines, i) ==
    IF i >= Len(lines) THEN <<>>
    ELSE <<[file  |-> f, first |-> i + 1, last |-> Min(i + ChunkLines, Len(lines)),
            lines |-> SubSeq(lines, i + 1, Min(i + ChunkLines - 1, Len(lines)))]>>
         \o FileChunksShort(f, lines, i + ChunkLines)

\* the chunks of one file: for i in range(0, len(lines), 1000)
RECURSIVE FileChunks(_, _, _)
FileChunks(f, lines, i) ==
    IF i >= Len(lines) THEN <<>>
    ELSE <<[file  |-> f, first |-> i + 1, last |-> Min(i + ChunkLines, Len(lines)),
            lines |-> SubSeq(lines, i + 1, Min(i + ChunkLines, Len(lines)))]>>
         \o FileChunks(f, lines, i + ChunkLines)

RECURSIVE ChunksOfFiles(_)
ChunksOfFiles(files) ==
    IF files = <<>> THEN <<>>
    ELSE (IF HasExt(Head(files).name, DefaultExts) /\ ~IsBlank(SplitLines(Head(files)))
          THEN FileChunks(Head(files).name, SplitLines(Head(files)), 0) ELSE <<>>)
         \o ChunksOfFiles(Tail(files))

RECURSIVE ChunksOfWalk(_)
ChunksOfWalk(w) ==
    IF w = <<>> THEN <<>>
    ELSE (IF HasHiddenPart(Head(w).root) THEN <<>> ELSE ChunksOfFiles(Head(w).files))
         \o ChunksOfWalk(Tail(w))

get_code_files(tree, repo_path) == ChunksOfWalk(Walk(tree, repo_path, "", FALSE))

(***************************************************************************)
(* Python values decoded from JSON: numbers (in 1/Scale units), strings,   *)
(* null, lists and dicts (key/value pairs in insertion order).             *)
(***************************************************************************)
JNum(n) == [t |-> "num", n |-> n]
JStr(str) == [t |-> "str", s |-> str]
JNull == [t |-> "null"]
JList(items) == [t |-> "list", items |-> items]
JObj(pairs) == [t |-> "obj", items |-> pairs]

\* d.get(key, default) on a dict
Get(d, key, default) ==
    IF \E i \in 1..Len(d.items) : d.items[i][1] = key
    THEN d.items[CHOOSE i \in 1..Len(d.items) : d.items[i][1] = key][2]
    ELSE default

\* iter(v): the elements a for loop over v visits; ok is FALSE where it raises TypeError
Iter(v) ==
    CASE v.t = "list" -> [ok |-> TRUE, items |-> v.items]
      [] v.t = "obj"  -> [ok |-> TRUE, items |-> [i \in 1..Len(v.items) |-> JStr(v.items[i][1])]]
      [] v.t = "str"  -> [ok |-> TRUE, items |-> [i \in 1..Len(v.s) |-> JStr(SubSeq(v.s, i, i))]]
      [] OTHER        -> [ok |-> FALSE, items |-> <<>>]

(***************************************************************************)
(* json.loads over the texts the tools and the model can emit: each text   *)
(* of JsonTexts denotes the value beside it, every other text raises       *)
(* JSONDecodeError.                                                        *)
(***************************************************************************)
RadonGood ==
    "{\"src/main.py\": [{\"type\": \"function\", \"name\": \"load\", \"complexity\": 7}, {\"type\": \"method\", \"name\": \"run\", \"complexity\": 12}]}"
\* what the complexity reporter prints for a file it cannot parse
RadonFileError == "{\"src/main.py\": {\"error\": \"invalid syntax (<unknown>, line 3)\"}}"
RadonEmpty == "{}"
RadonList == "[]"
RadonNotJson == "usage: radon cc [-h]"

JscpdGood == "{\"statistics\": {\"total\": {\"lines\": 400, \"percentage\": 10}}}"
\* a third of the lines duplicated
JscpdHeavy == "{\"statistics\": {\"total\": {\"percentage\": 32.5}}}"
JscpdNoStats == "{\"duplicates\": []}"
JscpdStrPct == "{\"statistics\": {\"total\": {\"percentage\": \"12.5\"}}}"
JscpdTable == "Format | Files \nTotal: | 12 | 400 | 3.25% |\nFound 2 clones."
JscpdNoTotal == "Detection time: 1.2s"

LLMPayload == "{\"logic\": 80, \"relevance\": 70, \"style\": 60, \"feedback\": \"Clear structure\"}"
LLMOver == "{\"logic\": 150, \"relevance\": 150, \"style\": 150}"
LLMQuoted == "{\"logic\": \"85\", \"relevance\": 90, \"style\": 75, \"feedback\": \"ok\"}"
LLMProse == "I could not evaluate this snippet."
\* a payload whose feedback quotes a code fence (the apostrophe stands for the backquote)
LLMTicks ==
    "{\"logic\": 90, \"relevance\": 85, \"style\": 80, \"feedback\": \"Replace '''{}''' with a typed config\"}"

JsonTexts ==
    << <<RadonGood,
         JObj(<< <<"src/main.py",
          JList(<<JObj(<< <<"type", JStr("function")>>, <<"name", JStr("load")>>,
                          <<"complexity", JNum(Num(7))>> >>),
                  JObj(<< <<"type", JStr("method")>>, <<"name", JStr("run")>>,
                          <<"complexity", JNum(Num(12))>> >>)>>)>> >>)>>,
       <<RadonFileError,
         JObj(<< <<"src/main.py", JObj(<< <<"error", JStr("invalid syntax (<unknown>, line 3)")>> >>)>> >>)>>,
       <<RadonEmpty,
         JObj(<<>>)>>,
       <<RadonList,
         JList(<<>>)>>,
       <<JscpdGood,
         JObj(<< <<"statistics", JObj(<< <<"total", JObj(<< <<"lines", JNum(Num(400))>>,
          <<"percentage", JNum(Num(10))>> >>)>> >>)>> >>)>>,
       <<JscpdHeavy,
         JObj(<< <<"statistics", JObj(<< <<"total", JObj(<< <<"percentage",
          JNum(Cents(3250))>> >>)>> >>)>> >>)>>,
       <<JscpdNoStats,
         JObj(<< <<"duplicates", JList(<<>>)>> >>)>>,
       <<JscpdStrPct,
         JObj(<< <<"statistics", JObj(<< <<"total", JObj(<< <<"percentage", JStr("12.5")>> >>)>> >>)>> >>)>>,
       <<LLMPayload,
         JObj(<< <<"logic", JNum(Num(80))>>, <<"relevance", JNum(Num(70))>>,
          <<"style", JNum(Num(60))>>, <<"feedback", JStr("Clear structure")>> >>)>>,
       <<LLMOver,
         JObj(<< <<"logic", JNum(Num(150))>>, <<"relevance", JNum(Num(150))>>,
          <<"style", JNum(Num(150))>> >>)>>,
       <<LLMQuoted,
         JObj(<< <<"logic", JStr("85")>>, <<"relevance", JNum(Num(90))>>,
          <<"style", JNum(Num(75))>>, <<"feedback", JStr("ok")>> >>)>>,
       <<LLMTicks,
         JObj(<< <<"logic", JNum(Num(90))>>, <<"relevance", JNum(Num(85))>>,
          <<"style", JNum(Num(80))>>,
          <<"feedback", JStr("Replace '''{}''' with a typed config")>> >>)>> >>

\* json.loads(text): ok is FALSE where it raises JSONDecodeError
JsonLoads(text) ==
    IF \E i \in 1..Len(JsonTexts) : JsonTexts[i][1] = text
    THEN [ok |-> TRUE, val |-> JsonTexts[CHOOSE i \in 1..Len(JsonTexts) : JsonTexts[i][1] = text][2]]
    ELSE [ok |-> FALSE, val |-> JNull]

(***************************************************************************)
(* float(text) over signed decimal numerals with at most two fraction      *)
(* digits (the numerals the bounded tool outputs hold); ok is FALSE where  *)
(* it raises ValueError.                                                   *)
(***************************************************************************)
Digits == "0123456789"
IsDigits(s) == \A i \in 1..Len(s) : Contains(Digits, SubSeq(s, i, i))
RECURSIVE DigitsVal(_)
DigitsVal(s) ==
    IF s = "" THEN 0
    ELSE 10 * DigitsVal(SubSeq(s, 1, Len(s) - 1)) + (Find(Digits, SubSeq(s, Len(s), Len(s))) - 1)

ParseFloat(text) ==
    LET s     == Strip(text)
        neg   == StartsWith(s, "-")
        body  == IF neg \/ StartsWith(s, "+") THEN Tail(s) ELSE s
        parts == Split(body, ".")
        ip    == parts[1]
        fp    == IF Len(parts) = 2 THEN parts[2] ELSE ""
        wf    == /\ Len(parts) <= 2 /\ IsDigits(ip) /\ IsDigits(fp)
                 /\ Len(ip) + Len(fp) > 0 /\ Len(fp) <= 2
        mag   == Num(DigitsVal(ip))
                 + Cents(IF Len(fp) = 1 THEN 10 * DigitsVal(fp) ELSE DigitsVal(fp))
    IN  IF wf THEN [ok |-> TRUE, val |-> IF neg THEN 0 - mag ELSE mag]
        ELSE [ok |-> FALSE, val |-> 0]

(***************************************************************************)
(* subprocess.run(..., timeout=300): the call raises TimeoutExpired        *)
(* ("timeout") or FileNotFoundError ("missing"), or completes with a       *)
(* return code and the text on stdout.                                     *)
(***************************************************************************)
TimedOut == [kind |-> "timeout", returncode |-> 0, stdout |-> ""]
Missing == [kind |-> "missing", returncode |-> 0, stdout |-> ""]
Completed(rc, out) == [kind |-> "completed", returncode |-> rc, stdout |-> out]
NotRun == [kind |-> "notrun", returncode |-> 0, stdout |-> ""]

Invoked(run) == run.kind \in {"timeout", "missing", "completed"}
InvocationFailed(run) == run.kind \in {"timeout", "missing"}

\* str(e) of the exception a failed invocation or decode raises
ErrorText(what) ==
    CASE what = "timeout" -> "Command timed out after 300 seconds"
      [] what = "missing" -> "[Errno 2] No such file or directory"
      [] OTHER            -> "Expecting value: line 1 column 1 (char 0)"

Returned(v) == [exc |-> "", val |-> v]
Raised(e) == [exc |-> e, val |-> JNull]

(***************************************************************************)
(* run_static_analysis                                                     *)
(***************************************************************************)
ComplexityThreshold == 7

\* the inner loop over one file's functions: the issues appended, or the exception raised
RECURSIVE ScanFunctions(_, _)
ScanFunctions(file_path, funcs) ==
    IF funcs = <<>> THEN Returned(<<>>)
    ELSE LET func == Head(funcs)
         IN  IF func.t # "obj" THEN Raised("AttributeError")
             ELSE LET c == Get(func, "complexity", JNum(0))
                  IN  IF c.t # "num" THEN Raised("TypeError")
                      ELSE LET rest == ScanFunctions(file_path, Tail(funcs))
                               issue == [file       |-> file_path,
                                         function   |-> Get(func, "name", JStr("unknown")),
                                         complexity |-> c,
                                         type       |-> Get(func, "type", JStr("unknown"))]
                           IN  IF rest.exc # "" THEN rest
                               ELSE Returned((IF c.n > Num(ComplexityThreshold)
                                              THEN <<issue>> ELSE <<>>) \o rest.val)

\* the outer loop over radon_result.items()
RECURSIVE ScanReport(_)
ScanReport(pairs) ==
    IF pairs = <<>> THEN Returned(<<>>)
    ELSE LET it == Iter(Head(pairs)[2])
         IN  IF ~it.ok THEN Raised("TypeError")
             ELSE LET here == ScanFunctions(Head(pairs)[1], it.items)
                  IN  IF here.exc # "" THEN here
                      ELSE LET rest == ScanReport(Tail(pairs))
                           IN  IF rest.exc # "" THEN rest
                               ELSE Returned(here.val \o rest.val)

\* RadonFailed without the assignment of line 96
RadonFailedEmpty(what) ==
    [exc |-> "", radon_result |-> JObj(<<>>), complexity_issues |-> <<>>]

\* the except clause of lines 94-96
RadonFailed(what) ==
    [exc |-> "", radon_result |-> JObj(<< <<"error", JStr(ErrorText(what))>> >>),
     complexity_issues |-> <<>>]

\* lines 69-96: [exc, radon_result, complexity_issues]
RadonPart(run) ==
        CASE run.kind = "timeout" -> RadonFailed("timeout")
          [] run.kind = "missing" -> RadonFailed("missing")
          [] OTHER ->
             IF run.returncode # 0
             THEN [exc |-> "", radon_result |-> JObj(<<>>), complexity_issues |-> <<>>]
             ELSE LET d == JsonLoads(run.stdout)
                  IN  IF ~d.ok THEN RadonFailed("decode")
                      ELSE IF d.val.t # "obj"
                           THEN [exc |-> "AttributeError", radon_result |-> d.val,
                                 complexity_issues |-> <<>>]
                      ELSE LET scan == ScanReport(d.val.items)
                           IN  [exc |-> scan.exc, radon_result |-> d.val,
                                complexity_issues |-> IF scan.exc = "" THEN scan.val ELSE <<>>]

\* py_files (lines 99-100)
RECURSIVE PyFilesOfWalk(_)
PyFilesOfWalk(w) ==
    IF w = <<>> THEN <<>>
    ELSE LET e   == Head(w)
             all == [i \in 1..Len(e.files) |-> PathJoin(e.root, e.files[i].name)]
         IN  (IF HasHiddenPart(e.root) THEN <<>>
              ELSE SelectSeq(all, LAMBDA f : EndsWith(f, ".py")))
             \o PyFilesOfWalk(Tail(w))

PyFiles(tree, repo_path) == PyFilesOfWalk(Walk(tree, repo_path, "", FALSE))

PylintSample == 3
SampleFiles(py_files) ==
    IF Len(py_files) > PylintSample THEN SubSeq(py_files, 1, PylintSample) ELSE py_files

PylintExitCodes == {0, 4, 8, 16, 32}
RatedMark == "Your code has been rated at"

\* ScanRating that gives up at the first line holding the mark
RECURSIVE ScanRatingFirstOnly(_, _)
ScanRatingFirstOnly(lines, score) ==
    IF lines = <<>> THEN score
    ELSE LET line == Head(lines)
         IN  IF Contains(line, RatedMark)
             THEN LET after == Split(line, RatedMark \o " ")
                      f     == IF Len(after) >= 2
                               THEN ParseFloat(Split(after[2], "/10")[1])
                               ELSE [ok |-> FALSE, val |-> 0]
                  IN  IF f.ok THEN f.val ELSE score
             ELSE ScanRatingFirstOnly(Tail(lines), score)

\* the scan of the stdout lines (lines 112-118), from the score held so far
RECURSIVE ScanRating(_, _)
ScanRating(lines, score) ==
    IF lines = <<>> THEN score
    ELSE LET line == Head(lines)
         IN  IF Contains(line, RatedMark)
             THEN LET after == Split(line, RatedMark \o " ")
                      f     == IF Len(after) >= 2
                               THEN ParseFloat(Split(after[2], "/10")[1])
                               ELSE [ok |-> FALSE, val |-> 0]
                  IN  IF f.ok THEN f.val ELSE ScanRating(Tail(lines), score)
             ELSE ScanRating(Tail(lines), score)

\* lines 101-120: pylint_score
PylintPart(run) ==
    IF run.kind = "completed" /\ run.returncode \in PylintExitCodes
    THEN ScanRating(Split(run.stdout, "\n"), 0)
    ELSE 0

run_static_analysis(radon_run, pylint_run) ==
    LET r == RadonPart(radon_run)
    IN  [exc |-> r.exc, radon_result |-> r.radon_result,
         pylint_score |-> PylintPart(pylint_run),
         complexity_issues |-> r.complexity_issues]

(***************************************************************************)
(* run_plagiarism_check: [exc, val], val the percent returned              *)
(***************************************************************************)
\* the fallback scan of the stdout lines (lines 142-148)
RECURSIVE ScanTotal(_, _)
ScanTotal(lines, percent) ==
    IF lines = <<>> THEN percent
    ELSE LET line == Head(lines)
         IN  IF Contains(line, "Total") /\ Contains(line, "%")
             THEN LET ws == Words(Split(Strip(line), "%")[1])
                      f  == IF ws # <<>> THEN ParseFloat(ws[Len(ws)])
                            ELSE [ok |-> FALSE, val |-> 0]
                  IN  IF f.ok THEN JNum(f.val) ELSE ScanTotal(Tail(lines), percent)
             ELSE ScanTotal(Tail(lines), percent)

\* run_plagiarism_check that counts a detector that could not be run as 100 percent
run_plagiarism_check_unmeasured(run) ==
    IF run.kind # "completed" \/ run.returncode # 0 THEN Returned(JNum(Num(100)))
    ELSE LET d == JsonLoads(run.stdout)
         IN  IF ~d.ok THEN Returned(ScanTotal(Split(run.stdout, "\n"), JNum(0)))
             ELSE IF d.val.t # "obj" THEN Raised("AttributeError")
             ELSE LET st == Get(d.val, "statistics", JObj(<<>>))
                  IN  IF st.t # "obj" THEN Raised("AttributeError")
                      ELSE LET tot == Get(st, "total", JObj(<<>>))
                           IN  IF tot.t # "obj" THEN Raised("AttributeError")
                               ELSE Returned(Get(tot, "percentage", JNum(0)))

run_plagiarism_check(run) ==
    IF run.kind # "completed" \/ run.returncode # 0 THEN Returned(JNum(0))
    ELSE LET d == JsonLoads(run.stdout)
         IN  IF ~d.ok THEN Returned(ScanTotal(Split(run.stdout, "\n"), JNum(0)))
             ELSE IF d.val.t # "obj" THEN Raised("AttributeError")
             ELSE LET st == Get(d.val, "statistics", JObj(<<>>))
                  IN  IF st.t # "obj" THEN Raised("AttributeError")
                      ELSE LET tot == Get(st, "total", JObj(<<>>))
                           IN  IF tot.t # "obj" THEN Raised("AttributeError")
                               ELSE Returned(Get(tot, "percentage", JNum(0)))

(***************************************************************************)
(* evaluate_with_llm.  The environment of a call: whether the client       *)
(* library imports, whether OPENAI_API_KEY is set, whether the client      *)
(* constructor succeeds; and one reply per submitted chunk: the response   *)
(* text, or an exception raised by the request.                            *)
(***************************************************************************)
LLMEnv(lib, key, init) == [lib |-> lib, key |-> key, init |-> init]
LLMAvailable(env) == env.lib /\ env.key /\ env.init

ReplyText(text) == [kind |-> "text", content |-> text]
ReplyError == [kind |-> "error", content |-> ""]

MaxLLMChunks == 5
NeutralScore == 50
\* a TLA+ string cannot hold a backquote: Tick stands for that character
Tick == "'"
Fence == Tick \o Tick \o Tick

\* a response that wraps the payload in a json-tagged fence, in a bare fence
JsonFenced(payload) == Fence \o "json\n" \o payload \o "\n" \o Fence
BareFenced(payload) == Fence \o "\n" \o payload \o "\n" \o Fence

\* lines 254-260: the text handed to json.loads
Unfence(content) ==
    LET response_text == Strip(content)
    IN  IF Contains(response_text, Fence \o "json")
        THEN Strip(Split(Split(response_text, Fence \o "json")[2], Fence)[1])
        ELSE IF Contains(response_text, Fence)
        THEN Strip(Split(Split(response_text, Fence)[2], Fence)[1])
        ELSE response_text

Neutral(note) ==
    [logic |-> JNum(Num(NeutralScore)), relevance |-> JNum(Num(NeutralScore)),
     style |-> JNum(Num(NeutralScore)), feedback |-> JStr(note)]

\* one iteration of the loop (lines 249-279): what is appended to the four lists
ChunkVerdict(reply) ==
    IF reply.kind = "error" THEN Neutral("Evaluation error: Connection error.")
    ELSE LET d == JsonLoads(Unfence(reply.content))
         IN  IF ~d.ok THEN Neutral("LLM response parsing failed: " \o ErrorText("decode"))
             ELSE IF d.val.t # "obj"
                  THEN Neutral("Evaluation error: object has no attribute get")
             ELSE [logic     |-> Get(d.val, "logic", JNum(Num(NeutralScore))),
                   relevance |-> Get(d.val, "relevance", JNum(Num(NeutralScore))),
                   style     |-> Get(d.val, "style", JNum(Num(NeutralScore))),
                   feedback  |-> Get(d.val, "feedback", JStr("No specific feedback provided"))]

\* Average taken as the first score
AverageFirst(scores) ==
    IF \A i \in 1..Len(scores) : scores[i].t = "num"
    THEN [ok |-> TRUE, val |-> scores[1].n]
    ELSE [ok |-> FALSE, val |-> 0]

\* what the model can answer for one chunk
NominalReply == ReplyText(LLMPayload)
Replies ==
    {ReplyError, NominalReply, ReplyText(JsonFenced(LLMOver)), ReplyText(LLMQuoted),
     ReplyText(LLMProse), ReplyText(JsonFenced(LLMTicks))}

\* the verdict on each of them
Verdicts == [reply \in Replies |-> ChunkVerdict(reply)]

\* sum(scores) / len(scores); ok is FALSE where sum raises TypeError
Average(scores) ==
    IF \A i \in 1..Len(scores) : scores[i].t = "num"
    THEN [ok |-> TRUE, val |-> SumSeq([i \in 1..Len(scores) |-> scores[i].n]) \div Len(scores)]
    ELSE [ok |-> FALSE, val |-> 0]

LLMResult(l, r, s, fb) == [logic |-> l, relevance |-> r, style |-> s, feedback |-> fb]
\* LLMDefault with 0 for the neutral score
LLMDefaultZero(note) == LLMResult(0, 0, 0, <<JStr(note)>>)

LLMDefault(note) ==
    LLMResult(Num(NeutralScore), Num(NeutralScore), Num(NeutralScore), <<JStr(note)>>)

\* Submitted without the cap
SubmittedAll(code_chunks) == code_chunks

\* the header label of a chunk
Label(chunk) == [file |-> chunk.file, first |-> chunk.first, last |-> chunk.last]

\* the chunks the loop submits: code_chunks[:5]
Submitted(code_chunks) == SubSeq(code_chunks, 1, Min(MaxLLMChunks, Len(code_chunks)))

\* replies[i] answers the i-th submitted chunk
evaluate_with_llm(env, code_chunks, replies) ==
    IF ~env.lib THEN LLMDefault("LLM evaluation unavailable - LangChain not installed")
    ELSE IF ~env.key THEN LLMDefault("LLM evaluation skipped - OPENAI_API_KEY not set")
    ELSE IF ~env.init THEN LLMDefault("LLM initialization failed: client error")
    ELSE LET n  == Len(Submitted(code_chunks))
             v  == [i \in 1..n |-> Verdicts[replies[i]]]
             la == Average([i \in 1..n |-> v[i].logic])
             ra == Average([i \in 1..n |-> v[i].relevance])
             sa == Average([i \in 1..n |-> v[i].style])
         IN  IF n = 0 THEN LLMDefault("No code chunks evaluated")
             ELSE IF la.ok /\ ra.ok /\ sa.ok
                  THEN LLMResult(la.val, ra.val, sa.val, [i \in 1..n |-> v[i].feedback])
             ELSE LLMDefault("LLM initialization failed: unsupported operand type(s) for +")

(***************************************************************************)
(* compute_final_score.  The weighted sum is exact in 1/(100*Scale)        *)
(* units; round(x, 2) yields the nearest whole number of hundredths, and   *)
(* where the exact sum lies midway between two of them the binary float    *)
(* sum decides, so either neighbour is possible.                           *)
(***************************************************************************)
\* WeightedSum with the weights of logic and relevance exchanged
WeightedSumSwapped(plagiarism, logic, relevance, style, pylint_score, structure_score) ==
    (Num(100) - plagiarism) * 30 + logic * 20 + relevance * 25 + style * 10
    + (pylint_score * 10) * 10 + structure_score * 5

WeightedSum(plagiarism, logic, relevance, style, pylint_score, structure_score) ==
    (Num(100) - plagiarism) * 30 + logic * 25 + relevance * 20 + style * 10
    + (pylint_score * 10) * 10 + structure_score * 5

Round2(v) ==
    LET q == v \div Scale
        r == v % Scale
    IN  IF 2 * r < Scale THEN {Cents(q)}
        ELSE IF 2 * r > Scale THEN {Cents(q + 1)}
        ELSE {Cents(q), Cents(q + 1)}

\* the values the call can return; empty where it raises TypeError
compute_final_score(plagiarism, logic, relevance, style, pylint_score, structure_score) ==
    IF plagiarism.t # "num" THEN {}
    ELSE Round2(WeightedSum(plagiarism.n, logic, relevance, style, pylint_score, structure_score))

(***************************************************************************)
(* generate_feedback                                                       *)
(***************************************************************************)
If(c, text) == IF c THEN <<text>> ELSE <<>>

\* OverallImpression with exclusive lower bounds
OverallImpressionAbove(final_score) ==
    IF final_score > Num(85) THEN "Excellent project with strong implementation"
    ELSE IF final_score > Num(70) THEN "Good project with some areas for improvement"
    ELSE IF final_score > Num(50) THEN "Average project needing significant improvements"
    ELSE "Project requires major refactoring and improvements"

\* lines 354-362
OverallImpression(final_score) ==
    IF final_score >= Num(85) THEN "Excellent project with strong implementation"
    ELSE IF final_score >= Num(70) THEN "Good project with some areas for improvement"
    ELSE IF final_score >= Num(50) THEN "Average project needing significant improvements"
    ELSE "Project requires major refactoring and improvements"

generate_feedback(r) ==
    [strengths |->
        If(r.pylint_score >= Num(7), "Good code quality with high pylint score")
        \o If(r.plagiarism_percent.n < Num(5), "Low plagiarism percentage indicates original work")
        \o If(r.logic >= Num(70), "Strong logical implementation")
        \o If(r.structure_analysis.has_readme, "Well-documented with README")
        \o If(r.structure_analysis.has_requirements, "Good dependency management"),
     weaknesses |->
        If(r.complexity_issues # <<>>, "High complexity in functions")
        \o If(r.pylint_score < Num(5), "Low code quality score needs improvement")
        \o If(~r.structure_analysis.has_tests, "No test files detected")
        \o If(r.style < Num(60), "Code style and readability need improvement"),
     recommendations |->
        If(r.complexity_issues # <<>>, "Refactor complex functions to improve maintainability")
        \o If(~r.structure_analysis.has_tests, "Add unit tests to ensure code reliability")
        \o If(r.style < Num(70), "Improve code formatting and add comments")
        \o If(~r.structure_analysis.has_github_actions, "Consider adding CI/CD with GitHub Actions"),
     overall_impression |-> OverallImpression(r.final_score)]

(***************************************************************************)
(* What the environment can answer.                                        *)
(* Each collaborator has a nominal answer; every other answer is a         *)
(* deviation, and one run of the pipeline meets at most MaxDeviations of   *)
(* them.                                                                   *)
(***************************************************************************)
MaxDeviations == 2

NominalRadon == Completed(0, RadonGood)
RadonRuns ==
    {TimedOut, Missing, NominalRadon, Completed(0, RadonEmpty),
     Completed(0, RadonFileError), Completed(0, RadonList), Completed(0, RadonNotJson),
     Completed(1, RadonNotJson)}

PylintTypical ==
    "************* Module main\nmain.py:1:0: C0114: Missing module docstring\n\nYour code has been rated at 8.00/10 (previous run: 6.50/10, +1.50)\n"
PylintClean == "\nYour code has been rated at 10.00/10\n"
\* a rating below zero, as the lint tool's releases before 2.13 print it
PylintNegative == "Your code has been rated at -2.50/10\n"
\* a message that echoes a comment of the linted source, then the rating
PylintEchoed ==
    "main.py:7:0: W0511: TODO print Your code has been rated at N/10 (fixme)\n\nYour code has been rated at 8.00/10\n"
\* a rating line without a number
PylintUnrated == "Your code has been rated at n/a/10\n"
NominalPylint == Completed(16, PylintTypical)
PylintRuns ==
    {TimedOut, Missing, Completed(0, PylintClean), NominalPylint,
     Completed(20, PylintTypical), Completed(0, ""), Completed(4, PylintNegative),
     Completed(4, PylintEchoed), Completed(8, PylintUnrated)}

NominalJscpd == Completed(0, JscpdGood)
JscpdRuns ==
    {TimedOut, Missing, NominalJscpd, Completed(0, JscpdNoStats),
     Completed(0, JscpdStrPct), Completed(0, RadonList), Completed(0, JscpdTable),
     Completed(0, JscpdNoTotal), Completed(1, JscpdGood), Completed(0, JscpdHeavy)}

NominalLLMEnv == LLMEnv(TRUE, TRUE, TRUE)
LLMEnvs ==
    {LLMEnv(FALSE, TRUE, TRUE), LLMEnv(TRUE, FALSE, TRUE), LLMEnv(TRUE, TRUE, FALSE),
     NominalLLMEnv}

\* the reply sequences of length n that the deviations left allow: the replies at
\* the positions of odd are not nominal, the others are
ReplySeqs(n, left) ==
    {[i \in 1..n |-> IF i \in DOMAIN f THEN f[i] ELSE NominalReply] :
        f \in UNION {[odd -> Replies \ {NominalReply}] :
                        odd \in {o \in SUBSET (1..n) : Cardinality(o) <= left}}}

\* the deviations in one answer, in a sequence of answers
Cost(answer, nominal) == IF answer = nominal THEN 0 ELSE 1
CostAll(answers, nominal) == SumSeq([i \in 1..Len(answers) |-> Cost(answers[i], nominal)])

\* shutil.rmtree(path, onerror=remove_readonly): removes the tree or raises PermissionError
RmtreeOutcomes == {"removed", "PermissionError"}

(***************************************************************************)
(* The state of one evaluate_repository call                               *)
(***************************************************************************)
Unset == [t |-> "unset"]

VARIABLES
    pc,                  \* the statement evaluate_repository is at
    repo_path,           \* the workspace path mkdtemp returned ("" before)
    dir_exists,          \* os.path.exists(repo_path)
    tree,                \* index in Trees of the work tree in the workspace, NoTree if none
    pending,             \* what the try body left for after the finally block
    outcome,             \* how the call ended
    retry,               \* the cleanup loop's counter
    code_chunks, radon_result, pylint_score, complexity_issues, sample_files,
    plagiarism_percent, structure_analysis, structure_score,
    logic, relevance, style, llm_feedback, final_score, results,
    \* history
    stages,              \* the stages entered, in order
    ran,                 \* how each tool invocation went, the LLM environment, the
                         \* chunks put to the model and its replies
    perm_errors,         \* the deletion attempts that raised PermissionError
    attempts,            \* the deletion attempts of the cleanup block
    sleeps,              \* the time.sleep(2) calls of the cleanup block
    deviations,          \* the deviations met so far
    \* the /evaluate handler around the call
    response,            \* what the handler answered (Unset before)
    writes,              \* the insert_one operations handed to the driver, not yet done
    collection,          \* the documents of db["github_evaluations"]
    \* concurrent calls that share the temp directory
    execs,               \* per call: where it is, and its workspace path
    disk                 \* per temp name: "absent", "empty" or "tree"

fs == <<repo_path, dir_exists, tree>>
analysis == <<code_chunks, radon_result, pylint_score, complexity_issues, sample_files,
              plagiarism_percent, structure_analysis, structure_score>>
scoring == <<logic, relevance, style, llm_feedback, final_score, results>>
cleanup == <<retry, perm_errors, attempts, sleeps>>
pipeline == <<pc, fs, pending, outcome, analysis, scoring, cleanup, stages, ran, deviations>>
service == <<response, writes, collection>>
shared == <<execs, disk>>
vars == <<pipeline, service, shared>>

\* the calls of the concurrent specification
NumExecutions == 2

Running == [kind |-> "running", exc |-> "", value |-> Unset]
NoPending == [kind |-> "none", exc |-> "", value |-> Unset]

Init ==
    /\ pc = "evaluate_endpoint"
    /\ response = Unset /\ writes = <<>> /\ collection = <<>>
    /\ execs = [e \in 1..NumExecutions |-> [pc |-> "mkdtemp", path |-> ""]]
    /\ disk = [name \in RepoPaths |-> "absent"]
    /\ repo_path = "" /\ dir_exists = FALSE /\ tree = NoTree
    /\ pending = NoPending /\ outcome = Running
    /\ retry = 0 /\ perm_errors = 0 /\ attempts = 0 /\ sleeps = 0
    /\ code_chunks = <<>> /\ radon_result = Unset /\ pylint_score = 0
    /\ complexity_issues = <<>> /\ sample_files = <<>>
    /\ plagiarism_percent = Unset /\ structure_analysis = Unset /\ structure_score = 0
    /\ logic = 0 /\ relevance = 0 /\ style = 0 /\ llm_feedback = <<>>
    /\ final_score = 0 /\ results = Unset
    /\ stages = <<>> /\ deviations = 0
    /\ ran = [clone |-> "none", radon |-> NotRun, pylint |-> NotRun, jscpd |-> NotRun,
              llm |-> Unset, prompts |-> <<>>, replies |-> <<>>]

\* RaiseInBody with the cleanup in an else clause instead of a finally clause
RaiseInBodyNoFinally(e) ==
    /\ pc' = "done"
    /\ pending' = pending
    /\ outcome' = [kind |-> "raised", exc |-> e, value |-> Unset]

\* a statement of the try body raises: control passes to the finally block
RaiseInBody(e) ==
    /\ pc' = "cleanup"
    /\ pending' = [kind |-> "raise", exc |-> e, value |-> Unset]
    /\ outcome' = outcome

\* the environment gives an answer that holds n deviations
Deviate(n) == deviations + n <= MaxDeviations /\ deviations' = deviations + n

\* Proceed with the duplication check left out of the sequence
ProceedPastDuplication(next) ==
    /\ pc' = (IF next = "run_plagiarism_check" THEN "analyze_repo_structure" ELSE next)
    /\ UNCHANGED <<pending, outcome>>

\* a stage of the try body returns: control passes to the next statement
Proceed(next) == pc' = next /\ UNCHANGED <<pending, outcome>>

\* AfterCloneError with the clone error swallowed
AfterCloneErrorSwallowed == "get_code_files"

\* where clone_repo's caller goes on: line 371 is outside the try statement
AfterCloneError == "done"

(***************************************************************************)
(* evaluate_endpoint, lines 467-479: the request body is read; without a   *)
(* github_url the handler answers 400, else it awaits evaluate_repository  *)
(***************************************************************************)
HttpError(status) == [status |-> status, body |-> Unset]

ReceiveRequest ==
    /\ pc = "evaluate_endpoint"
    /\ \E github_url \in {"", "https://github.com/team/app.git"} :
          IF github_url = ""
          THEN pc' = "responded" /\ response' = HttpError(400)
          ELSE pc' = "clone_repo" /\ response' = response
    /\ UNCHANGED <<fs, pending, outcome, analysis, scoring, cleanup, stages, ran, deviations,
                   writes, collection, shared>>

(***************************************************************************)
(* clone_repo, lines 19-31: make the directory, then empty the place       *)
(***************************************************************************)
CloneRepoPrepare ==
    /\ pc = "clone_repo"
    /\ UNCHANGED <<service, shared>>
    /\ \E path \in RepoPaths, rm \in RmtreeOutcomes :
        /\ repo_path' = path
        /\ dir_exists' = (rm # "removed")
        /\ perm_errors' = perm_errors + (IF rm = "removed" THEN 0 ELSE 1)
        /\ Deviate(Cost(rm, "removed") + Cost(path, NominalPath))
    /\ pc' = "clone_from"
    /\ stages' = Append(stages, "clone")
    /\ UNCHANGED <<tree, pending, outcome, analysis, scoring, retry, attempts, sleeps, ran>>

(***************************************************************************)
(* clone_repo, line 33: git.Repo.clone_from.  A failed clone removes what  *)
(* it created and raises                                                   *)
(***************************************************************************)
CloneFrom ==
    /\ pc = "clone_from"
    /\ UNCHANGED <<service, shared>>
    /\ \/ \E i \in 1..Len(Trees) :
            /\ tree' = i
            /\ dir_exists' = TRUE
            /\ pc' = "get_code_files"
            /\ outcome' = outcome
            /\ ran' = [ran EXCEPT !.clone = "ok"]
            /\ Deviate(0)
       \/ /\ UNCHANGED <<tree, dir_exists>>
          /\ pc' = AfterCloneError
          /\ outcome' = IF AfterCloneError = "done"
                        THEN [kind |-> "raised", exc |-> "GitCommandError", value |-> Unset]
                        ELSE outcome
          /\ ran' = [ran EXCEPT !.clone = "failed"]
          /\ Deviate(1)
    /\ UNCHANGED <<repo_path, pending, analysis, scoring, cleanup, stages>>

(***************************************************************************)
(* The try body, lines 374-426                                             *)
(***************************************************************************)
GetCodeFiles ==
    /\ pc = "get_code_files"
    /\ UNCHANGED <<service, shared>>
    /\ code_chunks' = get_code_files(WorkTree(tree), repo_path)
    /\ Proceed("run_static_analysis")
    /\ stages' = Append(stages, "get_code_files")
    /\ UNCHANGED <<fs, radon_result, pylint_score, complexity_issues, sample_files,
                   plagiarism_percent, structure_analysis, structure_score,
                   scoring, cleanup, ran, deviations>>

RunStaticAnalysis ==
    /\ pc = "run_static_analysis"
    /\ UNCHANGED <<service, shared>>
    /\ stages' = Append(stages, "run_static_analysis")
    /\ LET py_files == PyFiles(WorkTree(tree), repo_path)
       IN  \E radon_run \in RadonRuns :
           \E pylint_run \in (IF RadonPart(radon_run).exc = "" /\ py_files # <<>>
                              THEN PylintRuns ELSE {NotRun}) :
              LET r == run_static_analysis(radon_run, pylint_run)
              IN  /\ ran' = [ran EXCEPT !.radon = radon_run, !.pylint = pylint_run]
                  /\ Deviate(Cost(radon_run, NominalRadon)
                             + (IF Invoked(pylint_run) THEN Cost(pylint_run, NominalPylint)
                                ELSE 0))
                  /\ IF r.exc # ""
                     THEN /\ RaiseInBody(r.exc)
                          /\ UNCHANGED <<radon_result, pylint_score, complexity_issues,
                                         sample_files>>
                     ELSE /\ Proceed("run_plagiarism_check")
                          /\ radon_result' = r.radon_result
                          /\ pylint_score' = r.pylint_score
                          /\ complexity_issues' = r.complexity_issues
                          /\ sample_files' = IF Invoked(pylint_run)
                                             THEN SampleFiles(py_files) ELSE <<>>
    /\ UNCHANGED <<fs, code_chunks, plagiarism_percent, structure_analysis, structure_score,
                   scoring, cleanup>>

RunPlagiarismCheck ==
    /\ pc = "run_plagiarism_check"
    /\ UNCHANGED <<service, shared>>
    /\ stages' = Append(stages, "run_plagiarism_check")
    /\ \E run \in JscpdRuns :
          LET r == run_plagiarism_check(run)
          IN  /\ ran' = [ran EXCEPT !.jscpd = run]
              /\ Deviate(Cost(run, NominalJscpd))
              /\ IF r.exc # ""
                 THEN RaiseInBody(r.exc) /\ UNCHANGED plagiarism_percent
                 ELSE Proceed("analyze_repo_structure") /\ plagiarism_percent' = r.val
    /\ UNCHANGED <<fs, code_chunks, radon_result, pylint_score, complexity_issues,
                   sample_files, structure_analysis, structure_score, scoring, cleanup>>

\* lines 388-396
AnalyzeRepoStructure ==
    /\ pc = "analyze_repo_structure"
    /\ UNCHANGED <<service, shared>>
    /\ stages' = Append(stages, "analyze_repo_structure")
    /\ structure_analysis' = analyze_repo_structure(WorkTree(tree), repo_path)
    /\ structure_score' = StructureScore(structure_analysis')
    /\ Proceed("evaluate_with_llm")
    /\ UNCHANGED <<fs, code_chunks, radon_result, pylint_score, complexity_issues,
                   sample_files, plagiarism_percent, scoring, cleanup, ran, deviations>>

EvaluateWithLLM ==
    /\ pc = "evaluate_with_llm"
    /\ UNCHANGED <<service, shared>>
    /\ stages' = Append(stages, "evaluate_with_llm")
    /\ \E env \in LLMEnvs :
       \E replies \in ReplySeqs(IF LLMAvailable(env) THEN Len(Submitted(code_chunks)) ELSE 0,
                                MaxDeviations - deviations) :
          LET r == evaluate_with_llm(env, code_chunks, replies)
              sent == IF LLMAvailable(env) THEN Submitted(code_chunks) ELSE <<>>
          IN  /\ ran' = [ran EXCEPT !.llm = env, !.replies = replies,
                                    !.prompts = [i \in 1..Len(sent) |-> Label(sent[i])]]
              /\ Deviate(Cost(env, NominalLLMEnv) + CostAll(replies, NominalReply))
              /\ logic' = r.logic
              /\ relevance' = r.relevance
              /\ style' = r.style
              /\ llm_feedback' = r.feedback
    /\ Proceed("compute_final_score")
    /\ UNCHANGED <<fs, analysis, final_score, results, cleanup>>

\* the result record of lines 408-424, final_score being score
Results(score) ==
    LET r == [plagiarism_percent |-> plagiarism_percent,
              logic              |-> logic,
              relevance          |-> relevance,
              style              |-> style,
              pylint_score       |-> pylint_score,
              radon_result       |-> radon_result,
              complexity_issues  |-> complexity_issues,
              final_score        |-> score,
              code_chunks_count  |-> Len(code_chunks),
              structure_analysis |-> structure_analysis,
              structure_score    |-> structure_score,
              llm_feedback       |-> llm_feedback]
    IN  [k \in DOMAIN r \cup {"feedback"} |->
            IF k = "feedback" THEN generate_feedback(r) ELSE r[k]]

\* lines 403-426: the score, the result record, its feedback, the return statement
ComputeFinalScore ==
    /\ pc = "compute_final_score"
    /\ UNCHANGED <<service, shared>>
    /\ LET scores == compute_final_score(plagiarism_percent, logic, relevance, style,
                                         pylint_score, structure_score)
       IN  IF scores = {}
           THEN /\ RaiseInBody("TypeError") /\ UNCHANGED <<final_score, results>>
                /\ stages' = Append(stages, "compute_final_score")
           ELSE \E score \in scores :
                   /\ stages' = stages \o <<"compute_final_score", "generate_feedback">>
                   /\ final_score' = score
                   /\ results' = Results(score)
                   /\ pc' = "cleanup"
                   /\ pending' = [kind |-> "return", exc |-> "", value |-> results']
                   /\ outcome' = outcome
    /\ UNCHANGED <<fs, analysis, logic, relevance, style, llm_feedback, cleanup, ran,
                   deviations>>

(***************************************************************************)
(* The finally block, lines 427-446: one iteration of the retry loop.      *)
(* When the loop ends the call returns or re-raises what the body left.    *)
(***************************************************************************)
MaxRetries == 3

\* Sleeps with a wait after every failed attempt
SleepsAlways(rm, attempt) == IF rm = "PermissionError" THEN 1 ELSE 0

\* lines 441-444: the time.sleep(2) calls that follow the attempt numbered
\* attempt (from 0) when it ends as rm
Sleeps(rm, attempt) == IF rm = "PermissionError" /\ attempt < MaxRetries - 1 THEN 1 ELSE 0

Finished(p) == [kind |-> IF p.kind = "return" THEN "returned" ELSE "raised",
                exc |-> p.exc, value |-> p.value]

CleanupAttempt ==
    /\ pc = "cleanup"
    /\ UNCHANGED <<service, shared>>
    /\ \E rm \in (IF dir_exists THEN RmtreeOutcomes ELSE {"absent"}) :
          LET last == (retry = MaxRetries - 1)
              ends == rm = "removed" \/ last
          IN  /\ dir_exists' = (dir_exists /\ rm # "removed")
              /\ attempts' = attempts + (IF dir_exists THEN 1 ELSE 0)
              /\ perm_errors' = perm_errors + (IF rm = "PermissionError" THEN 1 ELSE 0)
              /\ sleeps' = sleeps + Sleeps(rm, retry)
              /\ retry' = retry + 1
              \* a workspace that stays locked is one deviation, however long it lasts
              /\ Deviate(IF rm = "PermissionError" /\ attempts = 0 THEN 1 ELSE 0)
              /\ pc' = IF ends THEN "done" ELSE "cleanup"
              /\ outcome' = IF ends THEN Finished(pending) ELSE outcome
    /\ stages' = IF retry = 0 THEN Append(stages, "cleanup") ELSE stages
    /\ UNCHANGED <<repo_path, tree, pending, analysis, scoring, ran>>

(***************************************************************************)
(* evaluate_endpoint, lines 481-495.  An exception of evaluate_repository  *)
(* leaves the handler (the framework answers 500).  A result record is     *)
(* never empty, so line 481 does not fire: the handler calls insert_one    *)
(* without awaiting it and returns the result.                             *)
(***************************************************************************)
Document(result) ==
    [github_url |-> "https://github.com/team/app.git", result |-> result]

\* insert_one never handed to the driver
insert_one_dropped(pending_writes, document) == pending_writes

\* collection.insert_one(document): the driver queues the operation on its
\* executor when the method is called; the future it returns is not awaited
insert_one(pending_writes, document) == Append(pending_writes, document)

EndpointRespond ==
    /\ pc = "done"
    /\ pc' = "responded"
    /\ IF outcome.kind = "raised"
       THEN response' = HttpError(500) /\ writes' = writes
       ELSE /\ writes' = insert_one(writes, Document(outcome.value))
            /\ response' = [status |-> 200, body |-> outcome.value]
    /\ UNCHANGED <<fs, pending, outcome, analysis, scoring, cleanup, stages, ran, deviations,
                   collection, shared>>

\* the driver's executor performs a queued insert
StoreWrite ==
    /\ writes # <<>>
    /\ collection' = Append(collection, Head(writes))
    /\ writes' = Tail(writes)
    /\ UNCHANGED <<pipeline, response, shared>>

Next ==
    \/ ReceiveRequest
    \/ CloneRepoPrepare
    \/ CloneFrom
    \/ GetCodeFiles
    \/ RunStaticAnalysis
    \/ RunPlagiarismCheck
    \/ AnalyzeRepoStructure
    \/ EvaluateWithLLM
    \/ ComputeFinalScore
    \/ CleanupAttempt
    \/ EndpointRespond
    \/ StoreWrite

Spec == Init /\ [][Next]_vars

\* the handler resumes when the awaited call is over, and the driver's executor
\* performs what it was handed
FairSpec == Spec /\ WF_vars(EndpointRespond) /\ WF_vars(StoreWrite)
(***************************************************************************)
(* Concurrent calls of evaluate_repository (the handler runs each in a     *)
(* thread of the default executor).  They share the temp directory: disk   *)
(* tells, for each name mkdtemp can draw, whether the directory is absent, *)
(* empty or holds a work tree.  The analyses between clone and cleanup are *)
(* one step.                                                               *)
(***************************************************************************)
At(e, where) == execs[e].pc = where
Goto(e, where) == execs' = [execs EXCEPT ![e].pc = where]

\* line 20, tempfile.mkdtemp: makes a directory under a random name that does
\* not exist yet
Mkdtemp(e) ==
    /\ At(e, "mkdtemp")
    /\ \E name \in RepoPaths :
          /\ disk[name] = "absent"
          /\ disk' = [disk EXCEPT ![name] = "empty"]
          /\ execs' = [execs EXCEPT ![e] = [pc |-> "rmtree", path |-> name]]
    /\ UNCHANGED <<pipeline, service>>

\* lines 22-31: the directory at repo_folder is removed if it exists, or kept
\* when the removal raises PermissionError
EmptyFolder(e) ==
    /\ At(e, "rmtree")
    /\ \/ disk' = [disk EXCEPT ![execs[e].path] = "absent"]
       \/ disk[execs[e].path] # "absent" /\ disk' = disk
    /\ Goto(e, "clone_from")
    /\ UNCHANGED <<pipeline, service>>

\* line 33: git clones into a missing or empty directory and refuses any other;
\* a clone that fails for another reason leaves the place as it was
CloneInto(e) ==
    /\ At(e, "clone_from")
    /\ \/ /\ disk[execs[e].path] # "tree"
          /\ disk' = [disk EXCEPT ![execs[e].path] = "tree"]
          /\ Goto(e, "body")
       \/ /\ disk' = disk
          /\ Goto(e, "done")
    /\ UNCHANGED <<pipeline, service>>

\* lines 374-426: the analyses read the workspace
AnalyseWorkspace(e) ==
    /\ At(e, "body")
    /\ Goto(e, "cleanup")
    /\ UNCHANGED <<pipeline, service, disk>>

\* lines 427-446: the workspace is removed, or left behind when every attempt
\* raises PermissionError
RemoveWorkspace(e) ==
    /\ At(e, "cleanup")
    /\ \/ disk' = [disk EXCEPT ![execs[e].path] = "absent"]
       \/ disk[execs[e].path] # "absent" /\ disk' = disk
    /\ Goto(e, "done")
    /\ UNCHANGED <<pipeline, service>>

NextShared ==
    \E e \in 1..NumExecutions :
        \/ Mkdtemp(e)
        \/ EmptyFolder(e)
        \/ CloneInto(e)
        \/ AnalyseWorkspace(e)
        \/ RemoveWorkspace(e)

SpecShared == Init /\ [][NextShared]_vars

(***************************************************************************)
(* Properties                                                              *)
(***************************************************************************)
LastStage == IF stages = <<>> THEN "" ELSE stages[Len(stages)]
Cloned == ran.clone = "ok"
Terminated == outcome.kind # "running"

C2_AlwaysReturns ==
    (Terminated /\ Cloned) =>
        (outcome.kind = "returned" /\ "final_score" \in DOMAIN outcome.value)

\* C3: when the clone fails, evaluate_repository raises the clone error, no
\* later stage is entered and no result record is produced
C3_CloneFailureIsFatal ==
    ran.clone = "failed" =>
        /\ Terminated
        /\ outcome = [kind |-> "raised", exc |-> "GitCommandError", value |-> Unset]
        /\ stages = <<"clone">>
        /\ results = Unset

C3_Witness == ran.clone = "failed" /\ Terminated /\ ~dir_exists

\* the complexity reporter timed out, was missing, or printed something that is not JSON
RadonUnusable ==
    \/ InvocationFailed(ran.radon)
    \/ ran.radon.kind = "completed" /\ ~JsonLoads(ran.radon.stdout).ok

C5_DegradedDefaults ==
    /\ (/\ LastStage = "run_static_analysis"
        /\ InvocationFailed(ran.radon) /\ ran.pylint.kind # "completed") =>
            /\ pc = "run_plagiarism_check"
            /\ pylint_score = 0 /\ complexity_issues = <<>>
    /\ (LastStage = "run_plagiarism_check" /\ InvocationFailed(ran.jscpd)) =>
            /\ pc = "analyze_repo_structure"
            /\ plagiarism_percent = JNum(0)
    /\ (LastStage = "evaluate_with_llm" /\ (~ran.llm.lib \/ ~ran.llm.key)) =>
            /\ logic = Num(50) /\ relevance = Num(50) /\ style = Num(50)
            /\ Len(llm_feedback) = 1

\* the duplication detector failed to start and the client library is missing
C5_Witness ==
    /\ LastStage = "evaluate_with_llm" /\ ~ran.llm.lib
    /\ InvocationFailed(ran.jscpd)
    /\ plagiarism_percent = JNum(0) /\ logic = Num(50)

\* C6: the final score of every result is the weighted sum
\* (100 - duplication)*0.30 + logic*0.25 + relevance*0.20 + style*0.10 +
\* (lint*10)*0.10 + structure*0.05 rounded to two decimals (a whole number of
\* hundredths at most half a hundredth from the sum); duplication 10, logic 80,
\* relevance 70, style 60, lint 8, structure 75 give 78.75
C6_FinalScoreFormula ==
    results # Unset =>
        LET exact == (Num(100) - results.plagiarism_percent.n) * 30 + results.logic * 25
                     + results.relevance * 20 + results.style * 10
                     + (results.pylint_score * 10) * 10 + results.structure_score * 5
            diff  == 100 * results.final_score - exact
        IN  /\ results.final_score % Cents(1) = 0
            /\ 2 * diff <= Scale /\ 2 * diff >= 0 - Scale
            /\ (/\ results.plagiarism_percent.n = Num(10) /\ results.logic = Num(80)
                /\ results.relevance = Num(70) /\ results.style = Num(60)
                /\ results.pylint_score = Num(8) /\ results.structure_score = Num(75))
               => results.final_score = Cents(7875)

C6_Witness ==
    /\ results # Unset
    /\ plagiarism_percent = JNum(Num(10)) /\ logic = Num(80) /\ relevance = Num(70)
    /\ style = Num(60) /\ pylint_score = Num(8) /\ structure_score = Num(75)
    /\ final_score = Cents(7875)

\* C7: the final score of every result lies in [0, 100]
C7_FinalScoreInRange == results # Unset => (final_score >= 0 /\ final_score <= Num(100))

\* C8: the structure score of every structure report is 20 for a README + 20 for
\* a manifest + 15 for tests + 15 for a container definition + 10 for a CI
\* workflow + min(file_count/10, 20); README and manifest alone with 50 files
\* give 45
C8_StructureScoreFormula ==
    structure_analysis # Unset =>
        LET sa == structure_analysis
            Pts(flag, n) == IF flag THEN Num(n) ELSE 0
        IN  /\ 10 * structure_score =
                 10 * (Pts(sa.has_readme, 20) + Pts(sa.has_requirements, 20)
                       + Pts(sa.has_tests, 15) + Pts(sa.has_dockerfile, 15)
                       + Pts(sa.has_github_actions, 10))
                 + Min(Num(sa.file_count), 10 * Num(20))
            /\ (/\ sa.has_readme /\ sa.has_requirements /\ ~sa.has_tests
                /\ ~sa.has_dockerfile /\ ~sa.has_github_actions /\ sa.file_count = 50)
               => structure_score = Num(45)

C8_Witness ==
    /\ structure_analysis # Unset
    /\ structure_analysis.has_readme /\ structure_analysis.has_requirements
    /\ ~structure_analysis.has_tests /\ ~structure_analysis.has_dockerfile
    /\ ~structure_analysis.has_github_actions /\ structure_analysis.file_count = 50
    /\ structure_score = Num(45)

AllArtefacts(sa) ==
    /\ sa.has_readme /\ sa.has_requirements /\ sa.has_tests
    /\ sa.has_dockerfile /\ sa.has_github_actions

\* C9 as stated: the structure score is an open-ended sum that can exceed 100;
\* the report that sets every flag and counts more than 200 files exceeds it
C9_Original ==
    (/\ structure_analysis # Unset /\ AllArtefacts(structure_analysis)
     /\ structure_analysis.file_count > 200) => structure_score > Num(100)

\* C9 amended: the structure score never exceeds 100
C9_StructureScoreBounded == structure_analysis # Unset => structure_score <= Num(100)

\* the largest report: every flag set, the file bonus at its cap
C9_Witness ==
    /\ structure_analysis # Unset /\ AllArtefacts(structure_analysis)
    /\ structure_analysis.file_count > 200 /\ structure_score = Num(100)

\* the tree holds a file in the directory .github/workflows or below it
HasWorkflowFile(t) ==
    \E p \in DOMAIN t :
        /\ p = ".github/workflows" \/ StartsWith(p, ".github/workflows/")
        /\ FileCount(t[p]) > 0

\* C10: for a work tree with a file under .github/workflows the structure report
\* has has_github_actions set
C10_WorkflowDetected ==
    (structure_analysis # Unset /\ HasWorkflowFile(WorkTree(tree))) =>
        structure_analysis.has_github_actions

(***************************************************************************)
(* Properties of the collector and of the hidden-directory rule            *)
(***************************************************************************)
Entered(stage) == \E i \in 1..Len(stages) : stages[i] = stage
\* get_code_files, run_static_analysis, analyze_repo_structure has just returned
Collected == LastStage = "get_code_files" /\ pc = "run_static_analysis"
Analysed == LastStage = "run_static_analysis" /\ pc = "run_plagiarism_check"
Surveyed == LastStage = "analyze_repo_structure" /\ pc = "evaluate_with_llm"

\* the directories of a tree on no dot-prefixed path, and the others
VisiblePaths(t) == {p \in DOMAIN t : ~HasHiddenPart(p)}
HiddenPaths(t) == DOMAIN t \ VisiblePaths(t)
FilesAt(t, paths) == UNION {{t[p].files[i] : i \in 1..Len(t[p].files)} : p \in paths}
FileNames(files) == {f.name : f \in files}

\* the files the collector opens, and those of them with something but white space
ReadFiles(t) == {f \in FilesAt(t, VisiblePaths(t)) : HasExt(f.name, DefaultExts)}
NonBlankFiles(t) == {f \in ReadFiles(t) : \E k \in 1..f.nlines : Strip(SplitLines(f)[k]) # ""}

\* the chunks of code_chunks labelled with the file name, in order
ChunksOf(name) == SelectSeq(code_chunks, LAMBDA c : c.file = name)

RECURSIVE ConcatLines(_)
ConcatLines(chunks) ==
    IF chunks = <<>> THEN <<>> ELSE Head(chunks).lines \o ConcatLines(Tail(chunks))

C12_ChunkRanges ==
    Collected =>
        \A f \in NonBlankFiles(WorkTree(tree)) :
            LET cs == ChunksOf(f.name)
                n  == f.nlines
            IN  /\ Len(cs) = (n + 999) \div 1000
                /\ \A k \in 1..Len(cs) :
                      /\ cs[k].first = 1000 * (k - 1) + 1
                      /\ cs[k].last = Min(1000 * k, n)
                /\ n <= 1000 => Len(cs) = 1

\* files of 2001, 1000 and 1001 lines have been collected
C12_Witness ==
    /\ Collected
    /\ Len(ChunksOf("engine.py")) = 3 /\ ChunksOf("engine.py")[3].first = 2001
    /\ ChunksOf("engine.py")[3].last = 2001
    /\ Len(ChunksOf("table.py")) = 1 /\ Len(ChunksOf("app.js")) = 2

\* C13 as stated: for every file the collector reads, the lines of its chunks
\* in order are the lines of the file
C13_Original ==
    Collected =>
        \A f \in ReadFiles(WorkTree(tree)) : ConcatLines(ChunksOf(f.name)) = SplitLines(f)

\* C13 amended: for every file the collector reads that holds something but
\* white space, the lines of its chunks in order are the lines of the file; a
\* file of white space only has no chunk
C13_ChunksReconstruct ==
    Collected =>
        \A f \in ReadFiles(WorkTree(tree)) :
            IF f \in NonBlankFiles(WorkTree(tree))
            THEN ConcatLines(ChunksOf(f.name)) = SplitLines(f)
            ELSE ChunksOf(f.name) = <<>>

\* a file of two chunks and a file of one empty line have been read
C13_Witness ==
    /\ Collected
    /\ Len(ChunksOf("app.js")) = 2 /\ Len(ConcatLines(ChunksOf("app.js"))) = 1001
    /\ \E f \in ReadFiles(WorkTree(tree)) : f.blank /\ f.nlines = 1

(***************************************************************************)
(* Properties of evaluate_with_llm                                         *)
(***************************************************************************)
\* the LLM stage has run with the library, the credential and the client at hand
Scored == Entered("evaluate_with_llm") /\ LLMAvailable(ran.llm)

Axes == {"logic", "relevance", "style"}
AxisValue(axis) == [logic |-> logic, relevance |-> relevance, style |-> style][axis]

\* the reply gives no score to use: the call failed, the text does not decode to
\* an object, or an axis holds something that is not a number
Unusable(reply) ==
    \/ reply.kind = "error"
    \/ ~JsonLoads(Unfence(reply.content)).ok
    \/ JsonLoads(Unfence(reply.content)).val.t # "obj"
    \/ \E axis \in Axes : ChunkVerdict(reply)[axis].t # "num"

UnusableReplies == {reply \in Replies : Unusable(reply)}

\* what the chunk answered by reply adds to the sum of an axis
Contribution(reply, axis) ==
    IF reply \in UnusableReplies THEN Num(50) ELSE Verdicts[reply][axis].n

\* C14: with the LLM available, exactly min(5, n) of the n chunks are put to the
\* model, one call each, and they are the first min(5, n) in collector order; no
\* chunk from the sixth on is sent, and the result holds no more than 5 verdicts
C14_FirstFiveOnly ==
    Scored =>
        /\ Len(ran.prompts) = Min(5, Len(code_chunks))
        /\ Len(ran.replies) = Len(ran.prompts)
        /\ \A i \in 1..Len(ran.prompts) : ran.prompts[i] = Label(code_chunks[i])
        /\ \A j \in 6..Len(code_chunks) :
              \A i \in 1..Len(ran.prompts) : ran.prompts[i] # Label(code_chunks[j])
        /\ Len(llm_feedback) <= 5

\* seven chunks were collected and five were put to the model
C14_Witness ==
    /\ Scored /\ Len(code_chunks) = 7 /\ Len(ran.prompts) = 5
    /\ ran.prompts[5] = Label(code_chunks[5]) /\ Len(llm_feedback) = 5

\* C15: a reply that cannot be used (the call raised, the text does not decode,
\* a value is unusable) costs its own chunk only: every evaluated chunk has its
\* feedback entry, the chunk of the unusable reply counts 50 on every axis, and
\* the other chunks count what their replies scored
C15_ChunkLocal ==
    (Scored /\ ran.replies # <<>>) =>
        LET n == Len(ran.replies)
        IN  /\ Len(llm_feedback) = n
            /\ \A axis \in Axes :
                  n * AxisValue(axis) =
                      SumSeq([i \in 1..n |-> Contribution(ran.replies[i], axis)])

Payloads == {LLMPayload, LLMOver, LLMQuoted, LLMTicks}
\* the verdict on the reply that holds the payload and nothing else
PlainVerdict == [payload \in Payloads |-> ChunkVerdict(ReplyText(payload))]

\* C17: a reply that wraps a JSON payload in a json-tagged fence or in a bare
\* fence is parsed to the logic, relevance, style and feedback that the reply
\* holding the payload alone is parsed to
C17_FenceTransparent ==
    \A i \in 1..Len(ran.replies) : \A payload \in Payloads :
        ran.replies[i] \in {ReplyText(JsonFenced(payload)), ReplyText(BareFenced(payload))}
            => Verdicts[ran.replies[i]] = PlainVerdict[payload]

(***************************************************************************)
(* Properties of the cleanup block                                         *)
(***************************************************************************)
\* the deletion attempts of the cleanup block that raised PermissionError
CleanupFailures == IF attempts = 0 THEN 0 ELSE IF dir_exists THEN attempts ELSE attempts - 1

StageOrder ==
    <<"clone", "get_code_files", "run_static_analysis", "run_plagiarism_check",
      "analyze_repo_structure", "evaluate_with_llm", "compute_final_score",
      "generate_feedback">>

\* the stages entered before the cleanup
BodyStages == SelectSeq(stages, LAMBDA st : st # "cleanup")

\* the place of a stage in the history (0 when it was not entered)
Position(stage) ==
    IF Entered(stage) THEN CHOOSE i \in 1..Len(stages) : stages[i] = stage ELSE 0

\* C21: within one evaluation the stages are entered one after another in the
\* order clone, source collection, static analysis, duplication check, structure
\* analysis, LLM scoring, aggregation, feedback synthesis, cleanup: the history
\* is an initial part of that order with at most the cleanup after it, a stage
\* is started only when every stage before it has been entered and control has
\* left it, LLM scoring comes after source collection, and aggregation after
\* the four analyses and the LLM scoring
C21_StagesInOrder ==
    /\ Len(BodyStages) <= Len(StageOrder)
    /\ BodyStages = SubSeq(StageOrder, 1, Len(BodyStages))
    /\ Entered("cleanup") =>
          /\ stages = Append(BodyStages, "cleanup")
          /\ Cloned
          /\ pc \in {"cleanup", "done", "responded"}
    /\ \A k \in 2..7 : pc = StageOrder[k] => stages = SubSeq(StageOrder, 1, k - 1)
    /\ pc = "cleanup" => pending.kind \in {"return", "raise"}
    /\ Entered("evaluate_with_llm") =>
          /\ 0 < Position("get_code_files")
          /\ Position("get_code_files") < Position("evaluate_with_llm")
    /\ Entered("compute_final_score") =>
          \A st \in {"get_code_files", "run_static_analysis", "run_plagiarism_check",
                      "analyze_repo_structure", "evaluate_with_llm"} :
             0 < Position(st) /\ Position(st) < Position("compute_final_score")
    /\ Entered("generate_feedback") =>
          Position("generate_feedback") = Position("compute_final_score") + 1

\* a call that went through every stage and returned
C21_Witness ==
    /\ outcome.kind = "returned"
    /\ stages = Append(StageOrder, "cleanup")
    /\ results # Unset

(***************************************************************************)
(* Properties of the lint score                                            *)
(***************************************************************************)
\* C22: whatever the lint tool prints and whatever its exit code, the lint
\* score that run_static_analysis returns, and the one stored in the result,
\* lies in [0, 10]
C22_LintScoreInRange ==
    /\ Analysed => (pylint_score >= 0 /\ pylint_score <= Num(10))
    /\ results # Unset => (results.pylint_score >= 0 /\ results.pylint_score <= Num(10))

RatedPhrase == RatedMark \o " "
\* the text between the phrase and "/10" on a line that holds the phrase
LintToken(line) == Split(Split(line, RatedPhrase)[2], "/10")[1]
StdoutLines(run) == Split(run.stdout, "\n")
RatedLines(run) ==
    {i \in 1..Len(StdoutLines(run)) : Contains(StdoutLines(run)[i], RatedPhrase)}
ParsableLines(run) ==
    {i \in RatedLines(run) : ParseFloat(LintToken(StdoutLines(run)[i])).ok}
First(indices) == CHOOSE i \in indices : \A j \in indices : i <= j
Accepted(run) == run.kind = "completed" /\ run.returncode \in {0, 4, 8, 16, 32}

\* the lint score by the first line that holds the phrase
LintByFirstLine ==
    [run \in PylintRuns \cup {NotRun} |->
        IF Accepted(run) /\ RatedLines(run) # {} /\ First(RatedLines(run)) \in ParsableLines(run)
        THEN ParseFloat(LintToken(StdoutLines(run)[First(RatedLines(run))])).val
        ELSE 0]

\* the lint score by the first line that holds the phrase and a number after it
LintByParsableLine ==
    [run \in PylintRuns \cup {NotRun} |->
        IF Accepted(run) /\ ParsableLines(run) # {}
        THEN ParseFloat(LintToken(StdoutLines(run)[First(ParsableLines(run))])).val
        ELSE 0]

\* C24 as stated: the lint score is the number between the phrase and "/10" on
\* the first stdout line that holds the phrase, exactly when the exit code is
\* one of 0, 4, 8, 16, 32 and that token parses as a number; else it is 0.0
C24_Original == Analysed => pylint_score = LintByFirstLine[ran.pylint]

\* C24 amended: the lint score is the number between the phrase and "/10" on
\* the first stdout line that holds the phrase followed by a token that parses
\* as a number, when the exit code is one of 0, 4, 8, 16, 32 and there is such
\* a line; for every other exit code, on timeout, on a missing tool and when no
\* line holds a parsable token it is 0.0
C24_LintScoreScan == Analysed => pylint_score = LintByParsableLine[ran.pylint]

\* the rating was taken from the line after one whose token does not parse
C24_Witness ==
    /\ Analysed /\ ran.pylint = Completed(4, PylintEchoed)
    /\ pylint_score = Num(8)
    /\ First(RatedLines(ran.pylint)) = 1 /\ First(ParsableLines(ran.pylint)) = 3

\* C23: whatever the model answers, each of the logic, relevance and style
\* values that evaluate_with_llm returns lies in [0, 100]
C23_AxesInRange ==
    Entered("evaluate_with_llm") =>
        \A axis \in Axes : AxisValue(axis) >= 0 /\ AxisValue(axis) <= Num(100)

(***************************************************************************)
(* Properties of the duplication check                                     *)
(***************************************************************************)
\* the detector could not be run: timeout, missing tool or non-zero exit
JscpdFailed ==
    InvocationFailed(ran.jscpd) \/ (ran.jscpd.kind = "completed" /\ ran.jscpd.returncode # 0)

\* C25: run_plagiarism_check never raises and always returns a number:
\* statistics.total.percentage when the detector exits with 0 and its stdout
\* decodes as JSON, the number before "%" on the first line with "Total" and
\* "%" when decoding fails, and 0.0 on timeout, missing tool, non-zero exit or
\* no usable value
C25_AlwaysANumber ==
    LastStage = "run_plagiarism_check" =>
        /\ pc = "analyze_repo_structure"
        /\ plagiarism_percent # Unset /\ plagiarism_percent.t = "num"
        /\ JscpdFailed => plagiarism_percent = JNum(0)
        /\ ran.jscpd = Completed(0, JscpdGood) => plagiarism_percent = JNum(Num(10))
        /\ ran.jscpd = Completed(0, JscpdTable) => plagiarism_percent = JNum(Cents(325))
        /\ ran.jscpd \in {Completed(0, JscpdNoStats), Completed(0, JscpdNoTotal)}
              => plagiarism_percent = JNum(0)

(***************************************************************************)
(* Properties of generate_feedback                                         *)
(***************************************************************************)
Listed(entries, text) == \E i \in 1..Len(entries) : entries[i] = text

\* C26: in the feedback of every result, for complexity, tests and style the
\* recommendation is there exactly when the weakness is there, and a result
\* without tests holds both the weakness and the recommendation about tests
C26_RecommendationsMirror ==
    results # Unset =>
        LET weak == results.feedback.weaknesses
            rec  == results.feedback.recommendations
        IN  /\ Listed(weak, "High complexity in functions")
                  <=> Listed(rec, "Refactor complex functions to improve maintainability")
            /\ Listed(weak, "No test files detected")
                  <=> Listed(rec, "Add unit tests to ensure code reliability")
            /\ Listed(weak, "Code style and readability need improvement")
                  <=> Listed(rec, "Improve code formatting and add comments")
            /\ ~results.structure_analysis.has_tests =>
                  /\ Listed(weak, "No test files detected")
                  /\ Listed(rec, "Add unit tests to ensure code reliability")

\* C27: the overall impression of every result is set from final_score alone
\* by the ladder with inclusive lower bounds: excellent from 85, good from 70
\* to below 85, average from 50 to below 70, major rework below 50
C27_ImpressionLadder ==
    results # Unset =>
        LET fs_ == results.final_score
            text == results.feedback.overall_impression
        IN  /\ (fs_ >= Num(85)) <=> (text = "Excellent project with strong implementation")
            /\ (fs_ >= Num(70) /\ fs_ < Num(85))
                  <=> (text = "Good project with some areas for improvement")
            /\ (fs_ >= Num(50) /\ fs_ < Num(70))
                  <=> (text = "Average project needing significant improvements")
            /\ (fs_ < Num(50))
                  <=> (text = "Project requires major refactoring and improvements")

\* a result of exactly 70 was given the good text
C27_Witness ==
    /\ results # Unset /\ results.final_score = Num(70)
    /\ results.feedback.overall_impression = "Good project with some areas for improvement"

\* C30: when the duplication detector cannot be run (timeout, missing tool,
\* non-zero exit) the result is that of a repository measured at 0 percent: the
\* percentage is 0.0, the duplication term gives its full 30 points to
\* final_score, and the strengths list the low-plagiarism entry
C30_UnmeasuredCountsAsOriginal ==
    (results # Unset /\ JscpdFailed) =>
        LET rest == results.logic * 25 + results.relevance * 20 + results.style * 10
                    + (results.pylint_score * 10) * 10 + results.structure_score * 5
            diff == 100 * results.final_score - (Num(30) * 100 + rest)
        IN  /\ results.plagiarism_percent = JNum(0)
            /\ 2 * diff <= Scale /\ 2 * diff >= 0 - Scale
            /\ results.final_score \in
                  compute_final_score(JNum(0), results.logic, results.relevance, results.style,
                                      results.pylint_score, results.structure_score)
            /\ Listed(results.feedback.strengths,
                      "Low plagiarism percentage indicates original work")
            /\ results.feedback = generate_feedback([results EXCEPT !.plagiarism_percent = JNum(0)])

\* the detector timed out and the result lists the low-plagiarism strength
C30_Witness ==
    /\ results # Unset /\ ran.jscpd = TimedOut
    /\ results.plagiarism_percent = JNum(0)
    /\ Listed(results.feedback.strengths, "Low plagiarism percentage indicates original work")

(***************************************************************************)
(* Properties of the workspace path                                        *)
(***************************************************************************)
\* places a workspace can be made at: the temp directories of the model and one
\* below a dot-prefixed directory
WorkspacePaths == RepoPaths \cup {"/home/ci/.cache/repo_k3x9q0aa"}

\* the path of a file relative to the workspace root
RelativeTo(path, root) == SubSeq(path, Len(root) + 2, Len(path))
RelativeAll(paths, root) == [i \in 1..Len(paths) |-> RelativeTo(paths[i], root)]

\* C28: the chunks of get_code_files, the lint sample of run_static_analysis
\* and the report of analyze_repo_structure are those that the same tree gives
\* at any other workspace path
C28_PathIndependent ==
    LET t == WorkTree(tree)
    IN  /\ Collected => \A other \in WorkspacePaths : get_code_files(t, other) = code_chunks
        /\ (Analysed /\ Invoked(ran.pylint)) =>
              \A other \in WorkspacePaths :
                  RelativeAll(SampleFiles(PyFiles(t, other)), other)
                      = RelativeAll(sample_files, repo_path)
        /\ Surveyed =>
              \A other \in WorkspacePaths : analyze_repo_structure(t, other) = structure_analysis

\* the tree holds a directory on no dot-prefixed path whose path contains
\* "test" and that holds a file
HasFilledTestDir(t) ==
    \E p \in VisiblePaths(t) : Contains(Lower(p), "test") /\ FileCount(t[p]) > 0

\* the condition of each flag, taken on its own
Meets(flag, root, file) ==
    CASE flag = "has_readme" -> Lower(file) \in {"readme.md", "readme.txt", "readme"}
      [] flag = "has_requirements" ->
             Lower(file) \in {"requirements.txt", "pyproject.toml", "setup.py"}
      [] flag = "has_dockerfile" -> Lower(file) = "dockerfile"
      [] flag = "has_github_actions" -> Contains(root, ".github/workflows")
      [] flag = "has_tests" -> Contains(Lower(root), "test")

\* C29: has_tests is set whenever the tree holds a non-hidden directory whose
\* path contains "test" with a file in it, whatever the file is called, and
\* every file of a visited directory sets each flag whose condition it meets
C29_TestDirDetected ==
    Surveyed =>
        LET t == WorkTree(tree)
        IN  /\ HasFilledTestDir(t) => structure_analysis.has_tests
            /\ \A p \in VisiblePaths(t) : \A j \in 1..Len(NamesOf(t[p])) :
                  \A flag \in {"has_readme", "has_requirements", "has_dockerfile",
                                "has_github_actions", "has_tests"} :
                     Meets(flag, RootOf(repo_path, p), NamesOf(t[p])[j])
                         => structure_analysis[flag]

(***************************************************************************)
(* Properties of concurrent calls                                          *)
(***************************************************************************)
\* the call is between the creation of its directory and the end of its cleanup
Active(e) == execs[e].pc \in {"rmtree", "clone_from", "body", "cleanup"}

\* C19: in every interleaving of concurrent calls, two calls that are both
\* between directory creation and cleanup hold different workspace paths
C19_DistinctWorkspaces ==
    \A e1, e2 \in 1..NumExecutions :
        (e1 # e2 /\ Active(e1) /\ Active(e2)) => execs[e1].path # execs[e2].path

====
